---- MODULE Spec2Model ----
(***************************************************************************)
(* StreamingAggregation (velox/exec/StreamingAggregation.cpp): a group-by  *)
(* operator over input that is presorted on the grouping keys.             *)
(*                                                                         *)
(* An input batch is a sequence of rows; a row is a tuple of three         *)
(* columns <<k1, k2, x>>: columns 1 and 2 are the grouping keys, column 3  *)
(* is the argument of the one aggregate, a sum or a count (raw values for  *)
(* a raw-input step, accumulators of an earlier stage otherwise).  A row   *)
(* of the RowContainer is named by an address (a positive integer);        *)
(* groups_ and inputGroups_ hold such addresses.  Vector indices are       *)
(* 1-based here and 0-based in the source.                                 *)
(***************************************************************************)
EXTENDS Integers, Sequences, FiniteSets, Bags, TLC

\* Bounds of the exploration.
MaxRows == 5            \* rows the driver feeds in one run
MaxBatch == 2           \* rows in one input batch
MaxOutputBatchSize == 2 \* largest configured outputBatchRows()
MaxClose == 2           \* close() calls in one run
MaxZeroRowBatches == 1  \* batches of zero rows the driver pushes in one run
MaxPipelineRows == 4    \* rows of the two streams of a partial/intermediate plan

\* Values of the aggregated column.
Vals == {1, 2}

VARIABLES
    phase,            \* "constructed", "initialized", "failed" (initialize threw), "crashed"
    error,            \* the exception raised so far, "none" if none
    aggSorted,        \* plan: aggregate.sortingKeys is not empty
    aggDistinct,      \* plan: aggregate.distinct
    ignoreNullKeys,   \* plan: aggregationNode->ignoreNullKeys()
    outputBatchSize_, \* outputBatchSize_
    step_,            \* step_: "partial", "intermediate", "final" or "single"
    aggregateName,    \* plan: aggregate.call->name(), "sum" or "count"
    rowsCreated,      \* rows_ != nullptr
    allocated,        \* addresses of the rows the RowContainer holds
    store,            \* address -> [keys, acc, init]: the memory of the rows
    groups_,          \* groups_
    numGroups_,       \* numGroups_
    inputGroups_,     \* inputGroups_
    input_,           \* input_: [set, rows]
    prevInput_,       \* prevInput_: [set, rows]
    noMoreInput_,     \* noMoreInput_
    consumed,         \* history: the rows passed to addInput, concatenated
    emitted,          \* history: the batches getOutput returned, in order
    closeCalls,       \* history: number of close() calls
    zeroRowBatches,   \* history: number of batches of zero rows passed to addInput
    pipeline          \* the plan the operator runs in, when it has several stages

opVars == <<phase, error, rowsCreated, allocated, store, groups_, numGroups_,
            inputGroups_, input_, prevInput_, noMoreInput_>>
planVars == <<aggSorted, aggDistinct, ignoreNullKeys, outputBatchSize_, step_,
             aggregateName>>
driverVars == <<zeroRowBatches, pipeline>>
vars == <<phase, error, aggSorted, aggDistinct, ignoreNullKeys, outputBatchSize_,
          step_, aggregateName, rowsCreated, allocated, store, groups_,
          numGroups_, inputGroups_, input_, prevInput_, noMoreInput_, consumed,
          emitted, closeCalls, zeroRowBatches, pipeline>>

\* An operator that is the whole plan: no other stage feeds it or reads it.
NoPipeline ==
    [stage |-> 0, base |-> 0, streamA |-> <<>>, partialA |-> <<>>,
     partials |-> <<>>, feed |-> <<>>, union |-> <<>>, merged |-> <<>>]

\* A null RowVectorPtr, and a batch holding rows.
NoBatch == [set |-> FALSE, rows |-> <<>>]
Batch(rows) == [set |-> TRUE, rows |-> rows]

\* The column layout fixed by initialize(): grouping key channels and the
\* channel of the aggregate's argument.
groupingKeys_ == <<1, 2>>
args_ == <<3>>

Min(a, b) == IF a < b THEN a ELSE b

\* F applied to the value of e, with e evaluated once: the local variable of
\* the source that holds e.
Local(e, F(_)) == CHOOSE r \in {F(x) : x \in {e}} : TRUE

\* The concatenation of a sequence of batches.
RECURSIVE Flatten(_)
Flatten(batches) ==
    IF batches = <<>> THEN <<>> ELSE Head(batches) \o Flatten(Tail(batches))

\* f with f[r] set to v, r added to the domain when new.
Put(f, r, v) == [a \in (DOMAIN f) \cup {r} |-> IF a = r THEN v ELSE f[a]]

----------------------------------------------------------------------------
(* equalKeys: two rows match in all grouping key columns. *)
equalKeys(keys, batch, index, otherBatch, otherIndex) ==
    \A i \in 1..Len(keys) :
        batch[index][keys[i]] = otherBatch[otherIndex][keys[i]]

(* RowContainer::newRow: the address of a row not currently held. *)
newRow(alloc) == CHOOSE a \in 1..(Cardinality(alloc) + 1) : a \notin alloc

(* storeKeys: the grouping key columns of one input row. *)
storeKeys(input, index) == [i \in 1..Len(groupingKeys_) |-> input[index][groupingKeys_[i]]]

(* std::vector::resize *)
resize(v, n) ==
    IF n <= Len(v) THEN SubSeq(v, 1, n)
    ELSE v \o [i \in 1..(n - Len(v)) |-> 0]

\* startNewGroup taking a row from the RowContainer whether or not a slot
\* behind numGroups_ is free.
startNewGroupAlwaysNew(s, input, index) ==
    LET newGroup == newRow(s.alloc)
        grown == IF s.numGroups < Len(s.groups) THEN s.groups
                 ELSE resize(s.groups, s.numGroups + 1)
    IN  [groups |-> [grown EXCEPT ![s.numGroups + 1] = newGroup],
         numGroups |-> s.numGroups + 1,
         alloc |-> s.alloc \cup {newGroup},
         store |-> Put(s.store, newGroup,
                       [keys |-> storeKeys(input, index),
                        acc |-> 0,
                        init |-> FALSE]),
         group |-> newGroup]

(* startNewGroup over the pool state s = [groups, numGroups, alloc, store];
   index is the row of the current input whose keys are stored. *)
startNewGroup(s, input, index) ==
    IF s.numGroups < Len(s.groups)
    THEN LET group == s.groups[s.numGroups + 1]
         IN  [groups |-> s.groups,
              numGroups |-> s.numGroups + 1,
              alloc |-> s.alloc,
              store |-> Put(s.store, group,
                            [keys |-> storeKeys(input, index),
                             acc |-> s.store[group].acc,
                             init |-> FALSE]),
              group |-> group]
    ELSE LET newGroup == newRow(s.alloc)
             grown == resize(s.groups, s.numGroups + 1)
         IN  [groups |-> [grown EXCEPT ![s.numGroups + 1] = newGroup],
              numGroups |-> s.numGroups + 1,
              alloc |-> s.alloc \cup {newGroup},
              store |-> Put(s.store, newGroup,
                            [keys |-> storeKeys(input, index),
                             acc |-> 0,
                             init |-> FALSE]),
              group |-> newGroup]

\* SeamEnd comparing against the first row of the previous batch.
RECURSIVE SeamEndFirstRow(_, _, _)
SeamEndFirstRow(prev, input, index) ==
    IF index < Len(input) /\ equalKeys(groupingKeys_, prev, 1, input, index + 1)
    THEN SeamEndFirstRow(prev, input, index + 1)
    ELSE index

(* The first loop of assignGroups: the number of leading rows of input whose
   keys equal the last row of the previous batch. *)
RECURSIVE SeamEnd(_, _, _)
SeamEnd(prev, input, index) ==
    IF index < Len(input) /\ equalKeys(groupingKeys_, prev, Len(prev), input, index + 1)
    THEN SeamEnd(prev, input, index + 1)
    ELSE index

(* The second loop of assignGroups: rows i..numInput, where index is the
   first row of the group opened last and ig the assignment so far. *)
RECURSIVE AssignRest(_, _, _, _, _)
AssignRest(s, input, index, i, ig) ==
    IF i > Len(input) THEN [pool |-> s, ig |-> ig]
    ELSE IF equalKeys(groupingKeys_, input, index, input, i)
         THEN AssignRest(s, input, index, i + 1, [ig EXCEPT ![i] = ig[index]])
         ELSE Local(startNewGroup(s, input, i),
                    LAMBDA t : AssignRest(t, input, i, i + 1,
                                          [ig EXCEPT ![i] = t.group]))

\* assignGroups taking the first open group, not the last, as the group of
\* the previous batch's last row.
assignSeamFirstOpen(s, input, prev, oldIg, index) ==
    LET numInput == Len(input)
        ig0 == resize(oldIg, numInput)
        ig1 == IF prev.set
               THEN [i \in 1..numInput |->
                        IF i <= index THEN s.groups[1] ELSE ig0[i]]
               ELSE ig0
    IN  IF index < numInput
        THEN Local(startNewGroup(s, input, index + 1),
                   LAMBDA t : AssignRest(t, input, index + 1, index + 2,
                                         [ig1 EXCEPT ![index + 1] = t.group]))
        ELSE [pool |-> s, ig |-> ig1]

(* assignGroups: maps every row of the pending input to a group, opening new
   groups as needed.  oldIg is inputGroups_ before the call. *)
assignSeam(s, input, prev, oldIg, index) ==
    LET numInput == Len(input)
        ig0 == resize(oldIg, numInput)
        ig1 == IF prev.set
               THEN [i \in 1..numInput |->
                        IF i <= index THEN s.groups[s.numGroups] ELSE ig0[i]]
               ELSE ig0
    IN  IF index < numInput
        THEN Local(startNewGroup(s, input, index + 1),
                   LAMBDA t : AssignRest(t, input, index + 1, index + 2,
                                         [ig1 EXCEPT ![index + 1] = t.group]))
        ELSE [pool |-> s, ig |-> ig1]

assignGroups(s, input, prev, oldIg) ==
    Local(IF prev.set THEN SeamEnd(prev.rows, input, 0) ELSE 0,
          LAMBDA index : assignSeam(s, input, prev, oldIg, index))

(* Aggregate::initializeNewGroups of the sum kernel, over the slots
   groups[i] for the 0-based indices i in first..last. *)
initializeNewGroups(st, groups, first, last) ==
    [a \in DOMAIN st |->
        IF \E i \in first..last : groups[i + 1] = a
        THEN [st[a] EXCEPT !.acc = 0, !.init = TRUE]
        ELSE st[a]]

(* core::AggregationNode::isRawInput and isPartialOutput *)
isRawInput(step) == step \in {"partial", "single"}
isPartialOutput(step) == step \in {"partial", "intermediate"}

(* Aggregate::addRawInput: every row of the input adds to the accumulator of
   its group, the sum kernel the row's argument column, the count kernel
   one. *)
RECURSIVE addRawInput(_, _, _, _)
addRawInput(st, ig, input, r) ==
    IF r > Len(input) THEN st
    ELSE addRawInput([st EXCEPT ![ig[r]].acc =
                         @ + (IF aggregateName = "count" THEN 1
                              ELSE input[r][args_[1]])],
                     ig, input, r + 1)

(* Aggregate::addIntermediateResults: the argument column holds accumulators
   of an earlier stage; both kernels merge them by addition. *)
RECURSIVE addIntermediateResults(_, _, _, _)
addIntermediateResults(st, ig, input, r) ==
    IF r > Len(input) THEN st
    ELSE addIntermediateResults([st EXCEPT ![ig[r]].acc = @ + input[r][args_[1]]],
                                ig, input, r + 1)

\* evaluateAggregates leaving out the first row of the batch.
evaluateAggregatesSkipFirst(st, ig, input) == addRawInput(st, ig, input, 2)

\* evaluateAggregates taking every input as raw input, whatever the step.
evaluateAggregatesRawOnly(st, ig, input) == addRawInput(st, ig, input, 1)

(* evaluateAggregates: one call of the kernel over the whole batch, the
   raw-input call or the intermediate one by the step.  The aggregate has no
   mask, so getSelectivityVector selects every row. *)
evaluateAggregates(st, ig, input) ==
    IF isRawInput(step_) THEN addRawInput(st, ig, input, 1)
    ELSE addIntermediateResults(st, ig, input, 1)

(* Aggregate::extractAccumulators and extractValues: for the sum and the
   count kernel the accumulator is the running total and the final value is
   that total. *)
extractAccumulators(acc) == acc
extractValues(acc) == acc

(* createOutput: keys and aggregate values of groups[1..n], accumulators
   for a partial output and final values otherwise. *)
createOutput(n, groups, st) ==
    [i \in 1..n |->
        st[groups[i]].keys
            \o <<IF isPartialOutput(step_) THEN extractAccumulators(st[groups[i]].acc)
                 ELSE extractValues(st[groups[i]].acc)>>]

\* The rotation without its second copy: the end of the vector keeps what it
\* held.
rotateForgetEmitted(groups, n) ==
    [i \in 1..Len(groups) |->
        IF i <= Len(groups) - n THEN groups[i + n] ELSE groups[i]]

\* The rotation with the emitted slots copied to the end in reverse order.
rotateReversed(groups, n) ==
    SubSeq(groups, n + 1, Len(groups)) \o [i \in 1..n |-> groups[n + 1 - i]]

\* No rotation: the emitted slots stay in front.
rotateNone(groups, n) == groups

(* The rotation of groups_ after emitting n rows. *)
rotate(groups, n) == SubSeq(groups, n + 1, Len(groups)) \o SubSeq(groups, 1, n)

\* Emission already when numGroups_ reaches the output batch size.
shouldEmitAtSize(numGroups, obs) == numGroups >= obs

(* getOutput's test for a partial emission. *)
shouldEmit(numGroups, obs) == numGroups > obs

(* isFinished *)
isFinished == noMoreInput_ /\ ~input_.set /\ numGroups_ = 0

----------------------------------------------------------------------------
\* The constructor has set the plan and the output batch size; nothing else
\* is set up.
Constructed ==
    /\ phase = "constructed"
    /\ error = "none"
    /\ rowsCreated = FALSE
    /\ allocated = {}
    /\ store = <<>>
    /\ groups_ = <<>>
    /\ numGroups_ = 0
    /\ inputGroups_ = <<>>
    /\ input_ = NoBatch
    /\ prevInput_ = NoBatch
    /\ noMoreInput_ = FALSE

(* The constructor, for a plan whose one aggregation is this operator: a
   single-step sum. *)
Init ==
    /\ phase = "constructed"
    /\ error = "none"
    /\ aggSorted \in BOOLEAN
    /\ aggDistinct \in BOOLEAN
    /\ ignoreNullKeys \in BOOLEAN
    /\ outputBatchSize_ \in 1..MaxOutputBatchSize
    /\ step_ = "single"
    /\ aggregateName = "sum"
    /\ pipeline = NoPipeline
    /\ rowsCreated = FALSE
    /\ allocated = {}
    /\ store = <<>>
    /\ groups_ = <<>>
    /\ numGroups_ = 0
    /\ inputGroups_ = <<>>
    /\ input_ = NoBatch
    /\ prevInput_ = NoBatch
    /\ noMoreInput_ = FALSE
    /\ consumed = <<>>
    /\ emitted = <<>>
    /\ closeCalls = 0
    /\ zeroRowBatches = 0

\* initialize without the ignoreNullKeys check.
initializeNoNullKeysCheck(sorted, distinct, ignoreNulls) ==
    IF sorted THEN [error |-> "unsupported: sorted inputs", rows |-> FALSE]
    ELSE IF distinct THEN [error |-> "unsupported: distinct inputs", rows |-> FALSE]
    ELSE [error |-> "none", rows |-> TRUE]

(* The outcome of initialize(): the exception it throws, "none" when it
   returns, and whether rows_ was created before it returned or threw. *)
initialize(sorted, distinct, ignoreNulls) ==
    IF sorted THEN [error |-> "unsupported: sorted inputs", rows |-> FALSE]
    ELSE IF distinct THEN [error |-> "unsupported: distinct inputs", rows |-> FALSE]
    ELSE IF ignoreNulls THEN [error |-> "unsupported: ignoring null keys", rows |-> FALSE]
    ELSE [error |-> "none", rows |-> TRUE]

Initialize ==
    /\ phase = "constructed"
    /\ closeCalls = 0
    /\ LET r == initialize(aggSorted, aggDistinct, ignoreNullKeys)
       IN  /\ error' = r.error
           /\ rowsCreated' = r.rows
           /\ phase' = IF r.error = "none" THEN "initialized" ELSE "failed"
    /\ UNCHANGED <<planVars, driverVars, allocated, store, groups_, numGroups_, inputGroups_,
                   input_, prevInput_, noMoreInput_, consumed, emitted, closeCalls>>


----------------------------------------------------------------------------
(* The driver's side of addInput.  Keys are named by their rank in the
   stream: the n-th distinct key of the stream is KeyTuple(n), so a stream
   is non-decreasing on the keys iff each row has the rank of the row before
   it or the next one. *)
KeyTuple(n) == <<(n + 1) \div 2, (n + 1) % 2>>
KeyRank(row) == 2 * (row[1] - 1) + row[2] + 1
LastRank ==
    IF consumed = <<>> THEN pipeline.base ELSE KeyRank(consumed[Len(consumed)])

\* The rows the driver may still push.
RowsLeft ==
    IF pipeline.stage = 0 THEN MaxRows - Len(consumed)
    ELSE MaxPipelineRows - Len(pipeline.streamA) - Len(consumed)

\* The batch of n rows whose i-th row opens a new key iff inc[i] = 1 and
\* carries the value xs[i].
MakeBatch(n, inc, xs) ==
    [i \in 1..n |->
        KeyTuple(LastRank + Cardinality({j \in 1..i : inc[j] = 1})) \o <<xs[i]>>]

(* addInput: the batch becomes the pending input.  The driver pushes only
   when no input is pending and before noMoreInput, to an operator that was
   initialized and not closed, and every batch it pushes has at least one
   row. *)
AddInputCall ==
    /\ phase = "initialized"
    /\ ~noMoreInput_
    /\ ~input_.set
    /\ \E n \in 1..Min(MaxBatch, RowsLeft) :
       \E inc \in [1..n -> {0, 1}] :
       \E xs \in [1..n -> Vals] :
          /\ consumed = <<>> => inc[1] = 1
          /\ input_' = Batch(MakeBatch(n, inc, xs))
          /\ consumed' = consumed \o MakeBatch(n, inc, xs)
    /\ UNCHANGED <<phase, error, planVars, driverVars, rowsCreated, allocated, store, groups_,
                   numGroups_, inputGroups_, prevInput_, noMoreInput_, emitted,
                   closeCalls>>

AddInput == closeCalls = 0 /\ AddInputCall

(* Operator::noMoreInput *)
NoMoreInputCall ==
    /\ phase = "initialized"
    /\ ~noMoreInput_
    /\ ~input_.set
    /\ noMoreInput_' = TRUE
    /\ UNCHANGED <<phase, error, planVars, driverVars, rowsCreated, allocated, store, groups_,
                   numGroups_, inputGroups_, input_, prevInput_, consumed, emitted,
                   closeCalls>>

NoMoreInput == closeCalls = 0 /\ NoMoreInputCall

\* getOutput leaving prevInput_ as nullptr.
emitOutputDropsPrev(obs, a, st2, input) ==
    LET emit == shouldEmit(a.pool.numGroups, obs)
    IN  [output |-> IF emit THEN Batch(createOutput(obs, a.pool.groups, st2))
                    ELSE NoBatch,
         groups |-> IF emit THEN rotate(a.pool.groups, obs) ELSE a.pool.groups,
         numGroups |-> IF emit THEN a.pool.numGroups - obs ELSE a.pool.numGroups,
         alloc |-> a.pool.alloc,
         store |-> st2,
         ig |-> a.ig,
         prevInput |-> NoBatch,
         input |-> NoBatch]

\* getOutput emitting every open group once numGroups_ exceeds the output
\* batch size.
emitOutputAll(obs, a, st2, input) ==
    LET emit == shouldEmit(a.pool.numGroups, obs)
        n == a.pool.numGroups
    IN  [output |-> IF emit THEN Batch(createOutput(n, a.pool.groups, st2))
                    ELSE NoBatch,
         groups |-> IF emit THEN rotate(a.pool.groups, n) ELSE a.pool.groups,
         numGroups |-> IF emit THEN 0 ELSE a.pool.numGroups,
         alloc |-> a.pool.alloc,
         store |-> st2,
         ig |-> a.ig,
         prevInput |-> input,
         input |-> NoBatch]

(* getOutput with a pending input: the state after the call and the batch
   returned (NoBatch for nullptr). *)
emitOutput(obs, a, st2, input) ==
    LET emit == shouldEmit(a.pool.numGroups, obs)
    IN  [output |-> IF emit THEN Batch(createOutput(obs, a.pool.groups, st2))
                    ELSE NoBatch,
         groups |-> IF emit THEN rotate(a.pool.groups, obs) ELSE a.pool.groups,
         numGroups |-> IF emit THEN a.pool.numGroups - obs ELSE a.pool.numGroups,
         alloc |-> a.pool.alloc,
         store |-> st2,
         ig |-> a.ig,
         prevInput |-> input,
         input |-> NoBatch]

\* getOutput initializing the groups from slot 0 on.
updateGroupsInitFromZero(obs, numPrevGroups, a, input) ==
    Local(evaluateAggregates(
              initializeNewGroups(a.pool.store, a.pool.groups,
                                  0, a.pool.numGroups - 1),
              a.ig, input.rows),
          LAMBDA st2 : emitOutput(obs, a, st2, input))

(* getOutput, lines 308-324: the kernel initializes the groups opened by the
   batch, then takes the whole batch in one call. *)
updateGroups(obs, numPrevGroups, a, input) ==
    Local(evaluateAggregates(
              initializeNewGroups(a.pool.store, a.pool.groups,
                                  numPrevGroups, a.pool.numGroups - 1),
              a.ig, input.rows),
          LAMBDA st2 : emitOutput(obs, a, st2, input))

getOutputInput(obs, groups, numGroups, alloc, st, ig, input, prev) ==
    Local(assignGroups([groups |-> groups, numGroups |-> numGroups,
                        alloc |-> alloc, store |-> st],
                       input.rows, prev, ig),
          LAMBDA a : updateGroups(obs, numGroups, a, input))

\* The final flush leaving numGroups_ as it was.
getOutputNoInputKeep(noMore, groups, numGroups, st) ==
    IF noMore /\ numGroups > 0
    THEN [output |-> Batch(createOutput(numGroups, groups, st)), numGroups |-> numGroups]
    ELSE [output |-> NoBatch, numGroups |-> numGroups]

\* The flush running whenever groups are open, noMoreInput_ or not.
getOutputNoInputEager(noMore, groups, numGroups, st) ==
    IF numGroups > 0
    THEN [output |-> Batch(createOutput(numGroups, groups, st)), numGroups |-> 0]
    ELSE [output |-> NoBatch, numGroups |-> numGroups]

(* getOutput without a pending input. *)
getOutputNoInput(noMore, groups, numGroups, st) ==
    IF noMore /\ numGroups > 0
    THEN [output |-> Batch(createOutput(numGroups, groups, st)), numGroups |-> 0]
    ELSE [output |-> NoBatch, numGroups |-> numGroups]

GetOutputCall ==
    /\ phase = "initialized"
    /\ IF ~input_.set
       THEN \E r \in {getOutputNoInput(noMoreInput_, groups_, numGroups_, store)} :
                /\ numGroups_' = r.numGroups
                /\ emitted' = IF r.output.set THEN Append(emitted, r.output.rows)
                              ELSE emitted
                /\ UNCHANGED <<allocated, store, groups_, inputGroups_, input_,
                               prevInput_>>
       ELSE \E r \in {getOutputInput(outputBatchSize_, groups_, numGroups_,
                                    allocated, store, inputGroups_, input_,
                                    prevInput_)} :
                /\ groups_' = r.groups
                /\ numGroups_' = r.numGroups
                /\ allocated' = r.alloc
                /\ store' = r.store
                /\ inputGroups_' = r.ig
                /\ prevInput_' = r.prevInput
                /\ input_' = r.input
                /\ emitted' = IF r.output.set THEN Append(emitted, r.output.rows)
                              ELSE emitted
    /\ UNCHANGED <<phase, error, planVars, driverVars, rowsCreated, noMoreInput_, consumed,
                   closeCalls>>

GetOutput == closeCalls = 0 /\ GetOutputCall

\* close calling rows_->clear() without the test for nullptr.
closeNoNullCheck(created, alloc, err) ==
    IF created THEN [alloc |-> {}, error |-> err]
    ELSE [alloc |-> alloc, error |-> "null dereference"]

(* close: rows_->clear() when rows_ was created, then Operator::close().
   The result is the set of rows still held and the exception raised.
   groups_, numGroups_ and prevInput_ are not touched, and the memory of the
   released rows keeps its last contents. *)
close(created, alloc, err) ==
    IF created THEN [alloc |-> {}, error |-> err]
    ELSE [alloc |-> alloc, error |-> err]

Close ==
    /\ closeCalls < MaxClose
    /\ LET r == close(rowsCreated, allocated, error)
       IN  /\ allocated' = r.alloc
           /\ error' = r.error
    /\ closeCalls' = closeCalls + 1
    /\ UNCHANGED <<phase, planVars, driverVars, rowsCreated, store, groups_, numGroups_,
                   inputGroups_, input_, prevInput_, noMoreInput_, consumed,
                   emitted>>

Next == Initialize \/ AddInput \/ GetOutput \/ NoMoreInput \/ Close

Spec == Init /\ [][Next]_vars

(* The driver keeps going: it initializes the operator, calls getOutput while
   that makes progress, and signals noMoreInput once it stops pushing.  close
   (cancellation) may come at any time or never. *)
FairSpec == Spec /\ WF_vars(Initialize \/ GetOutput \/ NoMoreInput)

----------------------------------------------------------------------------
(* A driver that goes on calling the operator after close().  close() has
   released the rows of the RowContainer while groups_, numGroups_,
   inputGroups_ and prevInput_ are as they were, so the calls below reach
   released rows through them.  What such an access does is not defined: the
   call either finds the memory as it was left (store keeps the contents of
   released rows, and the RowContainer hands released addresses out again),
   or the process stops on it. *)

\* The rows a getOutput call hands to the kernel and to the output builder:
\* r is the outcome of the call, numInput the rows of the pending input
\* (-1 without one), open the slots open before the call.
passedRows(r, numInput, open) ==
    IF numInput >= 0
    THEN {r.ig[i] : i \in 1..numInput}
            \cup (IF r.output.set
                  THEN {r.groups[Len(r.groups) - Len(r.output.rows) + i] :
                            i \in 1..Len(r.output.rows)}
                  ELSE {})
    ELSE IF r.output.set THEN open ELSE {}

\* The call in this state reaches a row that close() released.
ReachesReleasedRow ==
    /\ phase = "initialized"
    /\ IF input_.set
       THEN \E r \in {getOutputInput(outputBatchSize_, groups_, numGroups_,
                                    allocated, store, inputGroups_, input_,
                                    prevInput_)} :
               ~(passedRows(r, Len(input_.rows), {}) \subseteq r.alloc)
       ELSE \E r \in {getOutputNoInput(noMoreInput_, groups_, numGroups_, store)} :
               ~(passedRows(r, -1, {groups_[i] : i \in 1..numGroups_})
                    \subseteq allocated)

AddInputAfterClose == closeCalls > 0 /\ AddInputCall

NoMoreInputAfterClose == closeCalls > 0 /\ NoMoreInputCall

GetOutputAfterClose == closeCalls > 0 /\ GetOutputCall

GetOutputCrash ==
    /\ closeCalls > 0
    /\ ReachesReleasedRow
    /\ phase' = "crashed"
    /\ error' = "access to a released row"
    /\ UNCHANGED <<planVars, driverVars, rowsCreated, allocated, store, groups_, numGroups_,
                   inputGroups_, input_, prevInput_, noMoreInput_, consumed,
                   emitted, closeCalls>>

NextAfterClose ==
    \/ Initialize
    \/ AddInput
    \/ GetOutput
    \/ NoMoreInput
    \/ Close
    \/ AddInputAfterClose
    \/ NoMoreInputAfterClose
    \/ GetOutputAfterClose
    \/ GetOutputCrash

SpecAfterClose == Init /\ [][NextAfterClose]_vars

----------------------------------------------------------------------------
(* A driver that also pushes batches of zero rows.  getOutput() on a pending
   input with prevInput_ set computes prevInput_->size() - 1 and reads
   groups_[numGroups_ - 1] (lines 224-225) without a test: with a previous
   batch of zero rows the seam loop compares row -1 of that batch, with
   numGroups_ = 0 it reads groups_[-1].  What either access yields is not
   defined: the process stops on it, or the comparison comes out some way for
   each row, so the seam loop ends after any number of rows; the pointer read
   from groups_[-1] is no row, so a seam loop that assigns it stops the
   process at the first use. *)
AddZeroRowInput ==
    /\ phase = "initialized"
    /\ closeCalls = 0
    /\ ~noMoreInput_
    /\ ~input_.set
    /\ zeroRowBatches < MaxZeroRowBatches
    /\ input_' = Batch(<<>>)
    /\ zeroRowBatches' = zeroRowBatches + 1
    /\ UNCHANGED <<phase, error, planVars, rowsCreated, allocated, store, groups_,
                   numGroups_, inputGroups_, prevInput_, noMoreInput_, consumed,
                   emitted, closeCalls, pipeline>>

\* The pending getOutput call uses prevInput_->size() - 1 = -1 as a row or
\* numGroups_ - 1 = -1 as a slot.
SeamIndexInvalid ==
    /\ input_.set
    /\ prevInput_.set
    /\ \/ numGroups_ = 0
       \/ Len(prevInput_.rows) = 0 /\ Len(input_.rows) > 0

GetOutputValidSeam == ~SeamIndexInvalid /\ GetOutput

GetOutputInvalidSeam ==
    /\ phase = "initialized"
    /\ closeCalls = 0
    /\ SeamIndexInvalid
    /\ \/ /\ phase' = "crashed"
          /\ error' = "invalid seam index"
          /\ UNCHANGED <<allocated, store, groups_, numGroups_, inputGroups_,
                         input_, prevInput_, emitted>>
       \/ /\ \E index \in 0..(IF numGroups_ = 0 THEN 0 ELSE Len(input_.rows)) :
             \E r \in {updateGroups(outputBatchSize_, numGroups_,
                                    assignSeam([groups |-> groups_,
                                                numGroups |-> numGroups_,
                                                alloc |-> allocated,
                                                store |-> store],
                                               input_.rows, prevInput_,
                                               inputGroups_, index),
                                    input_)} :
                /\ groups_' = r.groups
                /\ numGroups_' = r.numGroups
                /\ allocated' = r.alloc
                /\ store' = r.store
                /\ inputGroups_' = r.ig
                /\ prevInput_' = r.prevInput
                /\ input_' = r.input
                /\ emitted' = IF r.output.set THEN Append(emitted, r.output.rows)
                              ELSE emitted
          /\ UNCHANGED <<phase, error>>
    /\ UNCHANGED <<planVars, driverVars, rowsCreated, noMoreInput_, consumed,
                   closeCalls>>

NextZeroRows ==
    \/ Initialize
    \/ AddInput
    \/ AddZeroRowInput
    \/ NoMoreInput
    \/ GetOutputValidSeam
    \/ GetOutputInvalidSeam

SpecZeroRows == Init /\ [][NextZeroRows]_vars

----------------------------------------------------------------------------
(* A plan of four StreamingAggregation operators over two key-sorted streams
   A and B: a partial-step operator over A (stage 1), one over B (stage 2),
   an intermediate-step operator over the two partial outputs put together
   in key order (stage 3), and for comparison a single-step operator over
   the rows of A and B put together in key order (stage 4).  The stages run
   one after the other; each is a new operator, constructed, initialized and
   driven like any other.  The keys of B start at any key of A or right
   behind the last, so the streams share keys or not. *)

\* Two key-sorted sequences of rows put together in key order, the rows of a
\* before the rows of b with the same key.
RECURSIVE KeyMerge(_, _)
KeyMerge(a, b) ==
    IF a = <<>> THEN b
    ELSE IF b = <<>> THEN a
    ELSE IF KeyRank(Head(a)) <= KeyRank(Head(b))
         THEN <<Head(a)>> \o KeyMerge(Tail(a), b)
         ELSE <<Head(b)>> \o KeyMerge(a, Tail(b))

InitPipeline ==
    /\ Constructed
    /\ aggSorted = FALSE
    /\ aggDistinct = FALSE
    /\ ignoreNullKeys = FALSE
    /\ outputBatchSize_ \in 1..MaxOutputBatchSize
    /\ step_ = "partial"
    /\ aggregateName \in {"sum", "count"}
    /\ consumed = <<>>
    /\ emitted = <<>>
    /\ closeCalls = 0
    /\ zeroRowBatches = 0
    /\ pipeline = [NoPipeline EXCEPT !.stage = 1]

\* Stages 1 and 2: the driver pushes the next rows of the stream.
StageInput == pipeline.stage \in {1, 2} /\ AddInput

\* Stages 3 and 4: the driver pushes the next rows the stage is fed with.
StageFeed ==
    /\ pipeline.stage \in {3, 4}
    /\ phase = "initialized"
    /\ ~noMoreInput_
    /\ ~input_.set
    /\ \E n \in 1..Min(MaxBatch, Len(pipeline.feed)) :
          /\ input_' = Batch(SubSeq(pipeline.feed, 1, n))
          /\ consumed' = consumed \o SubSeq(pipeline.feed, 1, n)
          /\ pipeline' = [pipeline EXCEPT
                             !.feed = SubSeq(pipeline.feed, n + 1, Len(pipeline.feed))]
    /\ UNCHANGED <<phase, error, planVars, rowsCreated, allocated, store, groups_,
                   numGroups_, inputGroups_, prevInput_, noMoreInput_, emitted,
                   closeCalls, zeroRowBatches>>

\* The driver signals the end of the stage's input once all of it is pushed.
StageNoMoreInput == pipeline.feed = <<>> /\ NoMoreInput

\* The stage has finished: its output is kept, and the operator of the next
\* stage is constructed.
NextStage ==
    /\ isFinished
    /\ pipeline.stage \in 1..3
    /\ phase' = "constructed"
    /\ rowsCreated' = FALSE
    /\ allocated' = {}
    /\ store' = <<>>
    /\ groups_' = <<>>
    /\ numGroups_' = 0
    /\ inputGroups_' = <<>>
    /\ input_' = NoBatch
    /\ prevInput_' = NoBatch
    /\ noMoreInput_' = FALSE
    /\ consumed' = <<>>
    /\ emitted' = <<>>
    /\ step_' = CASE pipeline.stage = 1 -> "partial"
                  [] pipeline.stage = 2 -> "intermediate"
                  [] pipeline.stage = 3 -> "single"
    /\ CASE pipeline.stage = 1 ->
              \E base \in 0..LastRank :
                  pipeline' = [pipeline EXCEPT !.stage = 2, !.base = base,
                                               !.streamA = consumed,
                                               !.partialA = Flatten(emitted)]
         [] pipeline.stage = 2 ->
              pipeline' = [pipeline EXCEPT
                              !.stage = 3, !.base = 0,
                              !.streamA = <<>>, !.partialA = <<>>,
                              !.partials = KeyMerge(pipeline.partialA, Flatten(emitted)),
                              !.feed = KeyMerge(pipeline.partialA, Flatten(emitted)),
                              !.union = KeyMerge(pipeline.streamA, consumed)]
         [] pipeline.stage = 3 ->
              pipeline' = [pipeline EXCEPT !.stage = 4, !.feed = pipeline.union,
                                           !.merged = Flatten(emitted)]
    /\ UNCHANGED <<error, aggSorted, aggDistinct, ignoreNullKeys, outputBatchSize_,
                   aggregateName, closeCalls, zeroRowBatches>>

NextPipeline ==
    \/ Initialize
    \/ StageInput
    \/ StageFeed
    \/ StageNoMoreInput
    \/ GetOutput
    \/ NextStage

SpecPipeline == InitPipeline /\ [][NextPipeline]_vars

----------------------------------------------------------------------------
(* The reference the claims are stated against: a group-by computed from the
   concatenated input alone. *)
AllEmitted == Flatten(emitted)

KeyOf(row) == <<row[1], row[2]>>
RefKeys(rows) == {KeyOf(rows[i]) : i \in DOMAIN rows}

RECURSIVE RefSum(_, _)
RefSum(rows, k) ==
    IF rows = <<>> THEN 0
    ELSE (IF KeyOf(Head(rows)) = k THEN Head(rows)[3] ELSE 0) + RefSum(Tail(rows), k)

\* One row per distinct key, carrying the sum of the rows with that key.
RefGroupBy(rows) == {k \o <<RefSum(rows, k)>> : k \in RefKeys(rows)}

\* The keys of the maximal runs of equal keys, in stream order.
RECURSIVE RunKeys(_)
RunKeys(rows) ==
    IF rows = <<>> THEN <<>>
    ELSE LET front == SubSeq(rows, 1, Len(rows) - 1)
             last == KeyOf(rows[Len(rows)])
         IN  IF front # <<>> /\ KeyOf(front[Len(front)]) = last
             THEN RunKeys(front)
             ELSE Append(RunKeys(front), last)

BagOfSeq(s) ==
    [e \in {s[i] : i \in DOMAIN s} |-> Cardinality({i \in DOMAIN s : s[i] = e})]

KeysOfRows(s) == [i \in DOMAIN s |-> KeyOf(s[i])]

\* The rows the operator has consumed: the input stream without the pending batch.
Assigned ==
    IF input_.set THEN SubSeq(consumed, 1, Len(consumed) - Len(input_.rows))
    ELSE consumed

----------------------------------------------------------------------------
(* C1: when the operator has finished, the multiset of the emitted rows is
   the reference group-by of the concatenated input: one row per key, with
   the sum of the rows of that key. *)
C1_GroupByResult ==
    isFinished => BagOfSeq(AllEmitted) = SetToBag(RefGroupBy(consumed))

C1_Witness ==
    /\ isFinished
    /\ Len(consumed) >= 5
    /\ Cardinality(RefKeys(consumed)) = 3
    /\ Len(emitted) = 2
    /\ \E i \in DOMAIN AllEmitted : AllEmitted[i][3] >= 4

(* C2: however the stream is split into batches, no key is ever emitted
   twice, a finished run has emitted every key of the input, and a stream of
   one single group yields one row in one batch. *)
C2_OneRowPerKey ==
    /\ \A i, j \in DOMAIN AllEmitted :
          KeyOf(AllEmitted[i]) = KeyOf(AllEmitted[j]) => i = j
    /\ isFinished => {KeyOf(AllEmitted[i]) : i \in DOMAIN AllEmitted} = RefKeys(consumed)
    /\ (isFinished /\ Cardinality(RefKeys(consumed)) = 1)
          => (Len(emitted) = 1 /\ Len(emitted[1]) = 1)

C2_Witness ==
    /\ isFinished
    /\ Cardinality(RefKeys(consumed)) = 1
    /\ Len(consumed) > 2 * MaxBatch
    /\ Len(emitted) = 1

(* C3: a getOutput call that consumes a pending input returns a batch iff
   the number of open groups after assignment exceeds outputBatchSize, and
   that batch has exactly outputBatchSize rows; the flush after noMoreInput
   returns all remaining groups in one batch.  The number of open groups
   after assignment is taken from the reference: the open groups before the
   call plus the key runs the pending batch starts. *)
C3_OpenAfterAssign ==
    numGroups_ + Len(RunKeys(consumed)) - Len(RunKeys(Assigned))

C3_BatchSize ==
    [][GetOutput =>
        IF input_.set
        THEN IF C3_OpenAfterAssign > outputBatchSize_
             THEN /\ Len(emitted') = Len(emitted) + 1
                  /\ SubSeq(emitted', 1, Len(emitted)) = emitted
                  /\ Len(emitted'[Len(emitted')]) = outputBatchSize_
                  /\ numGroups_' = C3_OpenAfterAssign - outputBatchSize_
             ELSE /\ emitted' = emitted
                  /\ numGroups_' = C3_OpenAfterAssign
        ELSE (noMoreInput_ /\ numGroups_ > 0) =>
                /\ Len(emitted') = Len(emitted) + 1
                /\ SubSeq(emitted', 1, Len(emitted)) = emitted
                /\ Len(emitted'[Len(emitted')]) = numGroups_
    ]_vars

\* A finished run with partial batches and a terminal batch larger than
\* outputBatchSize.
C3_Witness ==
    /\ isFinished
    /\ Len(emitted) >= 3
    /\ \A i \in 1..(Len(emitted) - 1) : Len(emitted[i]) = outputBatchSize_
    /\ Len(emitted[Len(emitted)]) > outputBatchSize_

(* C4: the k-th emitted row is the k-th key run of the input, in every
   reachable state: the keys of the emitted rows, in emission order, are a
   prefix of the run keys of the input. *)
C4_OutputOrder ==
    /\ Len(AllEmitted) <= Len(RunKeys(consumed))
    /\ KeysOfRows(AllEmitted) = SubSeq(RunKeys(consumed), 1, Len(AllEmitted))

\* Batches emitted after rotation and after slots were recycled: more rows
\* emitted than slots ever allocated.
C4_Witness ==
    /\ Len(emitted) >= 3
    /\ Len(AllEmitted) > Len(groups_)
    /\ Len(groups_) >= 2
    /\ numGroups_ > 0

(* C5: the open groups and the slot pool stay within outputBatchSize plus the
   rows of one input batch, however many distinct keys the stream holds. *)
C5_PoolBounded ==
    /\ numGroups_ <= outputBatchSize_ + MaxBatch
    /\ Len(groups_) <= outputBatchSize_ + MaxBatch

(* C6: a run that is neither rejected at initialization nor closed reaches
   isFinished; once noMoreInput is signalled and nothing is pending,
   isFinished holds exactly when every key run of the input has been emitted;
   at isFinished the emitted keys are the key runs of the input, each once;
   and from isFinished on nothing more is emitted and isFinished stays. *)
C6_Termination ==
    /\ <>(isFinished \/ closeCalls > 0 \/ phase = "failed")
    /\ []((noMoreInput_ /\ ~input_.set) =>
            (isFinished <=> Len(AllEmitted) = Len(RunKeys(consumed))))
    /\ [](isFinished => KeysOfRows(AllEmitted) = RunKeys(consumed))
    /\ [][isFinished => (isFinished' /\ emitted' = emitted)]_vars

C6_Witness ==
    /\ isFinished
    /\ closeCalls = 0
    /\ Len(RunKeys(consumed)) >= 4
    /\ Len(emitted) >= 2

(* C7: getOutput without a pending input either flushes (noMoreInput set and
   groups open: one batch of numGroups rows, numGroups becomes 0) or returns
   nothing and changes nothing. *)
C7_NoInputFrame ==
    [][(GetOutput /\ ~input_.set) =>
        IF noMoreInput_ /\ numGroups_ > 0
        THEN /\ Len(emitted') = Len(emitted) + 1
             /\ SubSeq(emitted', 1, Len(emitted)) = emitted
             /\ Len(emitted'[Len(emitted')]) = numGroups_
             /\ numGroups_' = 0
        ELSE UNCHANGED <<numGroups_, groups_, prevInput_, store, allocated, emitted>>
    ]_vars

\* The state after a flush of two groups that no partial emission preceded.
C7_Witness ==
    /\ isFinished
    /\ Len(emitted) = 1
    /\ Len(emitted[1]) = 2
    /\ outputBatchSize_ = 2

(* C8: an operator whose plan asks for sorted inputs, distinct inputs or
   ignoreNullKeys never accepts input, never creates row storage and never
   opens a group, and its initialization fails with an error. *)
C8_UnsupportedRejected ==
    (aggSorted \/ aggDistinct \/ ignoreNullKeys) =>
        /\ consumed = <<>>
        /\ ~input_.set
        /\ ~rowsCreated
        /\ allocated = {}
        /\ groups_ = <<>>
        /\ numGroups_ = 0
        /\ phase # "initialized"
        /\ (phase = "failed" <=> error # "none")

C8_Witness ==
    /\ phase = "failed"
    /\ ignoreNullKeys
    /\ ~aggSorted
    /\ ~aggDistinct
    /\ error = "unsupported: ignoring null keys"

(* C9: close raises nothing, in whatever state it is called, and a close
   after a close changes nothing of the operator's state. *)
C9_CloseIdempotent ==
    [][Close => (error' = error /\ (closeCalls >= 1 => UNCHANGED opVars))]_vars

\* close called twice in mid-stream, with groups open.
C9_Witness ==
    /\ closeCalls = 2
    /\ numGroups_ > 0
    /\ ~noMoreInput_
    /\ error = "none"

(* C10: once close has returned the operator holds no previous batch. *)
C10_PrevInputReleased == closeCalls > 0 => ~prevInput_.set

----------------------------------------------------------------------------
\* The keys stored in the slots groups_[from..to].
SlotKeys(from, to) == [i \in 1..(to - from + 1) |-> store[groups_[from + i - 1]].keys]

\* The key runs of the consumed input that are not emitted yet, in stream order.
OpenRuns == SubSeq(RunKeys(Assigned), Len(AllEmitted) + 1, Len(RunKeys(Assigned)))

(* C12: numGroups_ <= groups_.size(); slots [0, numGroups_) hold the open
   groups in the order they were opened; the slots behind hold groups that
   were emitted.  A partial emission of n rows shifts every slot behind the
   first n (open or free) n places to the front, puts the n emitted slots at
   the end of the vector in their order, and lowers numGroups_ by n. *)
C12_Layout ==
    /\ numGroups_ <= Len(groups_)
    /\ SlotKeys(1, numGroups_) = OpenRuns
    /\ \A i \in (numGroups_ + 1)..Len(groups_) :
          \E j \in DOMAIN AllEmitted : KeyOf(AllEmitted[j]) = store[groups_[i]].keys

C12_Rotation ==
    (GetOutput /\ input_.set /\ Len(emitted') > Len(emitted)) =>
        LET n == outputBatchSize_
            size == Len(groups_')
            batch == emitted'[Len(emitted')]
        IN  /\ size >= Len(groups_)
            /\ numGroups_' = C3_OpenAfterAssign - n
            /\ \A i \in (n + 1)..Len(groups_) : groups_'[i - n] = groups_[i]
            /\ \A i \in 1..Min(n, Len(groups_)) : groups_'[size - n + i] = groups_[i]
            /\ \A i \in 1..n : store'[groups_'[size - n + i]].keys = KeyOf(batch[i])

C12_SlotPool == []C12_Layout /\ [][C12_Rotation]_vars

\* After an emission that found free slots behind the open groups: more free
\* slots than the emission added.
C12_Witness ==
    /\ emitted # <<>>
    /\ ~noMoreInput_
    /\ numGroups_ >= 1
    /\ Len(groups_) - numGroups_ > outputBatchSize_

----------------------------------------------------------------------------
\* The slots open before the step, as a set of rows.
OpenSlots == {groups_[i] : i \in 1..numGroups_}

\* The sum of the argument column over the rows of the batch assigned to a.
RECURSIVE BatchSum(_, _, _)
BatchSum(rows, ig, a) ==
    IF rows = <<>> THEN 0
    ELSE (IF Head(ig) = a THEN Head(rows)[3] ELSE 0) + BatchSum(Tail(rows), Tail(ig), a)

(* C13: a getOutput call that consumes a batch initializes exactly the slots
   the batch opened, fresh or recycled, before the one update call: a slot
   opened by the batch ends initialized and holding the batch's rows of its
   group only, a slot that was open before keeps its state and gains the
   batch's rows of its group, every other row is untouched; so every open
   slot is initialized and holds the sum of the consumed rows of its key. *)
C13_OpenSlotsInitialized ==
    \A i \in 1..numGroups_ :
        /\ store[groups_[i]].init
        /\ store[groups_[i]].acc = RefSum(Assigned, store[groups_[i]].keys)

C13_InitThenUpdate ==
    (GetOutput /\ input_.set) =>
        LET rows == input_.rows
            ig == SubSeq(inputGroups_', 1, Len(rows))
            opened == {ig[r] : r \in 1..Len(rows)} \ OpenSlots
        IN  \A a \in DOMAIN store' :
                IF a \in OpenSlots
                THEN /\ store'[a].init
                     /\ store'[a].keys = store[a].keys
                     /\ store'[a].acc = store[a].acc + BatchSum(rows, ig, a)
                ELSE IF a \in opened
                THEN /\ store'[a].init
                     /\ store'[a].acc = BatchSum(rows, ig, a)
                ELSE a \in DOMAIN store /\ store'[a] = store[a]

C13_InitializeBeforeUpdate == []C13_OpenSlotsInitialized /\ [][C13_InitThenUpdate]_vars

\* A recycled slot was opened while another open slot kept the sum of
\* several rows.
C13_Witness ==
    /\ closeCalls = 0
    /\ Cardinality(allocated) < Len(RunKeys(Assigned))
    /\ numGroups_ >= 2
    /\ \E i \in 1..numGroups_ : store[groups_[i]].acc >= 3

(* C14: a getOutput call that consumes a batch maps every row either to the
   slot groups_[numGroups_ - 1] of before the call, and then the row and all
   rows before it have the key of the last row of the previous batch, or to
   a slot that was not open before the call; the slots before the last open
   one keep their state. *)
C14_OnlyLastGroupExtended ==
    [][(GetOutput /\ input_.set) =>
        /\ \A r \in 1..Len(input_.rows) :
              \/ /\ prevInput_.set
                 /\ numGroups_ >= 1
                 /\ inputGroups_'[r] = groups_[numGroups_]
                 /\ \A q \in 1..r :
                       KeyOf(input_.rows[q]) = KeyOf(prevInput_.rows[Len(prevInput_.rows)])
              \/ inputGroups_'[r] \notin OpenSlots
        /\ \A i \in 1..(numGroups_ - 1) : store'[groups_[i]] = store[groups_[i]]
    ]_vars

\* The last batch continued the second of two open groups and opened a third:
\* the two were emitted together and the second holds rows of both batches.
C14_Witness ==
    /\ Len(emitted) = 1
    /\ Len(emitted[1]) = 2
    /\ ~noMoreInput_
    /\ ~input_.set
    /\ prevInput_.set
    /\ Len(prevInput_.rows) = 2
    /\ KeyOf(prevInput_.rows[1]) = KeyOf(emitted[1][2])
    /\ emitted[1][2][3] > prevInput_.rows[1][3]

(* C15: between calls, whenever a group is open the operator holds the batch
   it consumed last, and the last row of that batch has the key of the slot
   groups_[numGroups_ - 1]; a getOutput call that consumes a batch retains
   that batch, whether it emits or not. *)
C15_Retained ==
    numGroups_ >= 1 =>
        /\ prevInput_.set
        /\ Len(prevInput_.rows) >= 1
        /\ Len(prevInput_.rows) <= Len(Assigned)
        /\ prevInput_.rows = SubSeq(Assigned, Len(Assigned) - Len(prevInput_.rows) + 1,
                                    Len(Assigned))
        /\ KeyOf(prevInput_.rows[Len(prevInput_.rows)]) = store[groups_[numGroups_]].keys

C15_RetainedPrevBatch ==
    []C15_Retained /\ [][(GetOutput /\ input_.set) => prevInput_' = input_]_vars

\* After a partial emission and rotation that left two groups open.
C15_Witness ==
    /\ emitted # <<>>
    /\ ~noMoreInput_
    /\ ~input_.set
    /\ numGroups_ >= 2
    /\ Len(prevInput_.rows) = 2

(* C16: startNewGroup takes a row from the RowContainer only when numGroups_
   equals groups_.size() and otherwise reuses groups_[numGroups_]; either way
   it stores the keys, raises numGroups_ by one and returns the slot at
   numGroups_ - 1.  groups_.size() never shrinks, grows in a getOutput call
   exactly to the number of open groups the call reaches when that is more,
   and rows are allocated only as groups_ grows. *)
C16_StartNewGroup ==
    (input_.set /\ closeCalls = 0) =>
        LET s == [groups |-> groups_, numGroups |-> numGroups_,
                  alloc |-> allocated, store |-> store]
            t == startNewGroup(s, input_.rows, 1)
        IN  /\ t.numGroups = numGroups_ + 1
            /\ t.group = t.groups[t.numGroups]
            /\ t.store[t.group].keys = KeyOf(input_.rows[1])
            /\ SubSeq(t.groups, 1, numGroups_) = SubSeq(groups_, 1, numGroups_)
            /\ IF numGroups_ = Len(groups_)
               THEN /\ t.group \notin allocated
                    /\ t.alloc = allocated \cup {t.group}
                    /\ Len(t.groups) = Len(groups_) + 1
               ELSE /\ t.group = groups_[numGroups_ + 1]
                    /\ t.alloc = allocated
                    /\ t.groups = groups_

C16_PoolSize ==
    /\ Len(groups_') >= Len(groups_)
    /\ (GetOutput /\ input_.set) =>
          /\ Len(groups_') = IF C3_OpenAfterAssign > Len(groups_)
                             THEN C3_OpenAfterAssign ELSE Len(groups_)
          /\ allocated \subseteq allocated'
          /\ Cardinality(allocated') - Cardinality(allocated) = Len(groups_') - Len(groups_)

C16_SlotRecycling ==
    /\ [](C16_StartNewGroup /\ (closeCalls = 0 => Cardinality(allocated) = Len(groups_)))
    /\ [][C16_PoolSize]_vars

\* A stream of five groups served by two rows: the open-group count stopped
\* growing and every later group reused a slot.
C16_Witness ==
    /\ closeCalls = 0
    /\ isFinished
    /\ Len(AllEmitted) = 5
    /\ Cardinality(allocated) = 2

(* C19: before noMoreInput, once a batch was emitted a group is still open,
   the slot groups_[numGroups_ - 1] holds the key of the last consumed row,
   that key was not emitted, and no row of the pending batch has a key that
   was emitted. *)
C19_EmittedKeys == {KeyOf(AllEmitted[j]) : j \in DOMAIN AllEmitted}

C19_NoEarlyEmission ==
    /\ (~noMoreInput_ /\ emitted # <<>>) =>
          /\ numGroups_ >= 1
          /\ store[groups_[numGroups_]].keys = KeyOf(Assigned[Len(Assigned)])
          /\ store[groups_[numGroups_]].keys \notin C19_EmittedKeys
    /\ input_.set =>
          \A r \in DOMAIN input_.rows : KeyOf(input_.rows[r]) \notin C19_EmittedKeys

\* After two emissions a pending batch starts with the key of the open group.
C19_Witness ==
    /\ ~noMoreInput_
    /\ Len(emitted) >= 2
    /\ input_.set
    /\ numGroups_ >= 1
    /\ KeyOf(input_.rows[1]) = store[groups_[numGroups_]].keys

(* C20: the pointers in groups_ are pairwise distinct, and until close every
   row of the RowContainer is in groups_ exactly once. *)
C20_NoAliasing ==
    /\ \A i, j \in DOMAIN groups_ : groups_[i] = groups_[j] => i = j
    /\ closeCalls = 0 => {groups_[i] : i \in DOMAIN groups_} = allocated

\* A finished run with rotations and recycled slots.
C20_Witness ==
    /\ closeCalls = 0
    /\ isFinished
    /\ Len(groups_) = 3
    /\ Len(AllEmitted) = 5

(* C17: every row a getOutput call hands to the kernel (initializeNewGroups,
   addRawInput, extractValues) or to the output builder is held by the
   RowContainer at that time, in every sequence of calls, calls after close()
   included. *)
C17_SlotStability ==
    [][((GetOutput \/ GetOutputAfterClose) /\ phase' = "initialized") =>
        LET rows == IF input_.set
                    THEN {inputGroups_'[r] : r \in 1..Len(input_.rows)}
                            \cup (IF Len(emitted') > Len(emitted)
                                  THEN {groups_'[Len(groups_') - outputBatchSize_ + i] :
                                            i \in 1..outputBatchSize_}
                                  ELSE {})
                    ELSE IF Len(emitted') > Len(emitted) THEN OpenSlots ELSE {}
        IN  rows \subseteq allocated'
    ]_vars

(* C18 as stated: whenever getOutput is about to assign a pending input with
   prevInput_ set, the previous batch has at least one row and numGroups_ is
   at least one, whatever batches the driver pushed, batches of zero rows
   included. *)
C18_SeamIndexValid ==
    (phase = "initialized" /\ input_.set /\ prevInput_.set) =>
        /\ Len(prevInput_.rows) >= 1
        /\ numGroups_ >= 1
        /\ numGroups_ <= Len(groups_)

(* C18, amended: the same while every batch the driver pushed had at least
   one row. *)
C18_SeamIndexValidNonEmpty ==
    (phase = "initialized" /\ input_.set /\ prevInput_.set /\ zeroRowBatches = 0) =>
        /\ Len(prevInput_.rows) >= 1
        /\ numGroups_ >= 1
        /\ numGroups_ <= Len(groups_)

\* A pending batch after an emission that left one group open, no batch of
\* zero rows so far.
C18_Witness ==
    /\ zeroRowBatches = 0
    /\ input_.set
    /\ prevInput_.set
    /\ emitted # <<>>
    /\ numGroups_ = 1

(* C11: in a plan that runs the operator in the partial step over a
   key-sorted stream A and over a key-sorted stream B, puts the two outputs
   together in key order and runs the operator in the intermediate step over
   them, the rows that operator emits are, key by key, the rows one
   single-step operator emits over the rows of A and B together; for the sum
   and for the count kernel, whose accumulators merge by addition. *)
C11_PartialSingleEquivalence ==
    (pipeline.stage = 4 /\ isFinished) =>
        BagOfSeq(Flatten(emitted)) = BagOfSeq(pipeline.merged)

\* A finished comparison in which a key came from both streams, one of them
\* with several rows of it, so that the intermediate operator merged two
\* accumulators into one row.
C11_Witness ==
    /\ pipeline.stage = 4
    /\ isFinished
    /\ aggregateName = "count"
    /\ Len(pipeline.partials) > Len(pipeline.merged)
    /\ \E i \in DOMAIN pipeline.partials : pipeline.partials[i][3] >= 2
    /\ Len(pipeline.merged) >= 2

====
